---- MODULE Spec2Model ----
(***************************************************************************)
(* Log replay engine of bananabacon (internal/logs/logreplay.go).         *)
(*                                                                         *)
(* Time is counted in ticks of 250ms.  Wall-clock instants and log         *)
(* timestamps are integers; Zero is Go's zero time.Time.  A line of text   *)
(* is a record [id, stamp]: id stands for the text around the substring    *)
(* captured by TimeRegex, stamp for the instant the captured substring     *)
(* denotes under TimeFormat (Zero when the line has no substring that      *)
(* TimeRegex captures and TimeFormat parses).  Log files whose timestamps  *)
(* denote the zero time itself are not modelled.                           *)
(***************************************************************************)
EXTENDS Integers, Sequences, FiniteSets, TLC

\* Bounds of the model.
MaxLen == 3       \* lines in the input file
MaxPass == 3      \* passes over the file that are followed
MaxOverrun == 1   \* ticks lost to scanning, callbacks and scheduler delay
MaxPulls == 3     \* GET /metrics requests that are followed

\* 500 * time.Millisecond, in ticks.
Window == 2
\* Ticks per smallest field of TimeFormat: Format drops what lies below it.
FmtRes == 2
\* time.Time{}
Zero == 0
\* Wall-clock reading when Start is called.
Epoch == 101

VARIABLES
    file,        \* the input file: sequence of [match, stamp]
    loop,        \* options.Loop
    pc,          \* position of the Start/processFile flow
    idx,         \* next line the scanner returns (1-based)
    pass,        \* number of the current pass
    mst,         \* wall time the first log line is mapped to
    start,       \* Start: start := time.Now()
    rst,         \* processFile: real start time of the pass
    lst,         \* processFile: log start time
    ctime,       \* processFile: time of the first line of the current batch
    buffer,      \* processFile: lines of the current batch
    held,        \* the line of the interrupted iteration, appended after wait
    timers,      \* the time.AfterFunc timers created in this pass
    closed,      \* notify has been closed by the deferred close
    cancelled,   \* ctx.Done() is closed
    now,         \* wall clock
    overruns,    \* ticks of overrun so far
    emitted,     \* history: callback invocations of the current pass
    prevEmitted, \* history: callback invocations of the previous pass
    extracted,   \* history: lines handed to extractAndReplaceTimestamp
    cancelAt,    \* history: pc at the moment of cancellation
    filterRegexOk, \* regexp.Compile(options.FilterRegex) succeeds
    timeRegexOk, \* regexp.Compile(options.TimeRegex) succeeds
    opened,      \* history: os.Open(inputFile) has been called
    reports,     \* history: the messages given to log.Fatalf
    crashed,     \* the process has died of a panic in a timer function
    environ,     \* os.Environ(): set of [name, value]
    mpc,         \* position of main
    engine,      \* MetricsEngine.Metrics
    response,    \* body of the last answer to GET /metrics
    pulls,       \* number of GET /metrics requests handled
    sdctx        \* the context given to server.Shutdown, once Stop has made it

vars == <<file, loop, pc, idx, pass, mst, start, rst, lst, ctime, buffer, held,
          timers, closed, cancelled, now, overruns, emitted, prevEmitted,
          extracted, cancelAt, filterRegexOk, timeRegexOk, opened, reports,
          crashed, environ, mpc, engine, response, pulls, sdctx>>

\* What Start decides before its first pass
sessionVars == <<filterRegexOk, timeRegexOk, opened, reports>>

\* The state of main and of the metrics server
mvars == <<environ, mpc, engine, response, pulls, sdctx>>

flowVars == <<pc, idx, pass, mst, start, rst, lst, ctime, buffer, held>>

----------------------------------------------------------------------------
\* Inputs

\* The log timestamps of the modelled files: processFile only compares a
\* timestamp with lst (Before) and its distance to ctime with Window, and
\* these instants give every outcome: equal, exactly one window apart
\* and more than one window apart, in either order.
Stamps == {FmtRes, FmtRes + Window, FmtRes + 2 * Window}

\* A line either fails FilterRegex, or matches it and carries a parsable
\* timestamp or none.
Kinds == {[match |-> FALSE, stamp |-> FmtRes]}
         \cup {[match |-> TRUE, stamp |-> s] : s \in Stamps \cup {Zero}}

Files == UNION {[1..n -> Kinds] : n \in 0..MaxLen}

\* scanner.Text() of line i
Text(i) == [id |-> i, stamp |-> file[i].stamp]

\* The empty string
EmptyLine == [id |-> 0, stamp |-> Zero]

\* An element of buffer: the string, tagged with the file line it came from
Entry(i, l) == [idx |-> i, text |-> l]
NoEntry == Entry(0, EmptyLine)

----------------------------------------------------------------------------
\* Pure functions

\* time.Time.Format(TimeFormat): the instant cut to the layout's resolution
Format(t) == t - (t % FmtRes)

\* time.Parse(TimeFormat, tstr): the instant the substring denotes
Parse(s) == s

\* extractAndReplaceTimestamp writing mst into every line
extractWithoutOffset(l, mst_, lst_) ==
    IF l.stamp = Zero
    THEN [t |-> Zero, line |-> EmptyLine, ok |-> FALSE]
    ELSE [t |-> Parse(l.stamp), line |-> [id |-> l.id, stamp |-> Format(mst_)], ok |-> TRUE]

extractAndReplaceTimestamp(l, mst_, lst_) ==
    IF l.stamp = Zero
    THEN [t |-> Zero, line |-> EmptyLine, ok |-> FALSE]
    ELSE LET ts  == Parse(l.stamp)
             nts == IF lst_ = Zero THEN mst_ ELSE mst_ + (ts - lst_)
         IN  [t |-> ts, line |-> [id |-> l.id, stamp |-> Format(nts)], ok |-> TRUE]

\* A due time that is never reached: time.AfterFunc with a Duration of months
\* or of about 292 years.
Forever == 1000000

\* The timer handleBufferedLines creates: it fires dur after now_.  With t the
\* zero time and a log of year 2 or later, t.Sub(lst) saturates at the most
\* negative Duration; time.Since(rst) is positive, so diff - ndiff overflows
\* int64 and wraps around to a Duration of about 292 years, which is not
\* below 0.  With a layout that has no year the log times lie in year 0 and
\* diff is a positive Duration of up to a year.
handleBufferedLines(lines, t, lst_, rst_, now_) ==
    LET wraps == t = Zero /\ lst_ # Zero
        diff  == t - lst_
        ndiff == now_ - rst_
        dur   == IF diff - ndiff < 0 THEN 0 ELSE diff - ndiff
        due   == IF wraps THEN Forever ELSE now_ + dur
    IN  [st |-> "pending", due |-> due, lines |-> lines, pos |-> 1, anchor |-> t]

----------------------------------------------------------------------------
\* A LogReplayer on which Start has not been called
NewLogReplayer ==
    /\ pc = "idle"
    /\ idx = 1
    /\ pass = 0
    /\ mst = Zero
    /\ start = Zero
    /\ rst = Zero
    /\ lst = Zero
    /\ ctime = Zero
    /\ buffer = <<>>
    /\ held = NoEntry
    /\ timers = <<>>
    /\ closed = FALSE
    /\ cancelled = FALSE
    /\ now = Epoch
    /\ overruns = 0
    /\ emitted = <<>>
    /\ prevEmitted = <<>>
    /\ extracted = {}
    /\ cancelAt = "none"
    /\ opened = FALSE
    /\ reports = <<>>
    /\ crashed = FALSE

\* No request has been answered yet
NoResponse == <<[kind |-> "none"]>>

\* The replayer used as a library: main and the metrics server do not run.
NoMain ==
    /\ environ = {}
    /\ mpc = "none"
    /\ engine = <<>>
    /\ response = NoResponse
    /\ pulls = 0
    /\ sdctx = <<>>

Init ==
    /\ file \in Files
    /\ loop \in BOOLEAN
    /\ filterRegexOk \in BOOLEAN
    /\ timeRegexOk \in BOOLEAN
    /\ NewLogReplayer
    /\ NoMain

\* processFile up to its first scanner.Scan()
enterProcessFile ==
    /\ rst' = now
    /\ lst' = Zero
    /\ ctime' = Zero
    /\ buffer' = <<>>
    /\ held' = NoEntry
    /\ idx' = 1
    /\ timers' = <<>>
    /\ closed' = FALSE
    /\ pc' = "scan"

\* Start compiling the filter regex only
compileFilterOnly ==
    IF ~filterRegexOk THEN "Invalid filter regex" ELSE "none"

\* The two regexp.Compile calls of Start: the message of the first failure
compileRegexes ==
    IF ~filterRegexOk THEN "Invalid filter regex"
    ELSE IF ~timeRegexOk THEN "Invalid time regex"
    ELSE "none"

\* Start, up to the first call of processFile.  log.Fatalf ends the process.
StartCall ==
    /\ pc = "idle"
    /\ IF compileRegexes # "none"
       THEN /\ reports' = Append(reports, compileRegexes)
            /\ pc' = "fatal"
            /\ UNCHANGED <<opened, mst, start, pass, idx, rst, lst, ctime, buffer,
                           held, timers, closed>>
       ELSE /\ opened' = TRUE
            /\ mst' = now
            /\ start' = now
            /\ pass' = 1
            /\ enterProcessFile
            /\ UNCHANGED reports
    /\ UNCHANGED <<file, loop, cancelled, now, overruns, emitted, prevEmitted,
                   extracted, cancelAt, filterRegexOk, timeRegexOk, crashed, mvars>>

----------------------------------------------------------------------------
\* processFile

\* A filter that lets every line through
MatchAnything(i) == TRUE

\* frx.MatchString(line)
MatchString(i) == file[i].match

\* The check against lst left out
neverBeforeLogStart(t, lst_) == FALSE

\* The check against lst with !t.After(lst) in place of t.Before(lst)
notAfterLogStart(t, lst_) == lst_ # Zero /\ t <= lst_

\* !lst.IsZero() && t.Before(lst)
beforeLogStart(t, lst_) == lst_ # Zero /\ t < lst_

\* The window test with >= in place of >
reachesWindow(t, ctime_) == t - ctime_ >= Window

\* t.Sub(ctime) > time.Duration(500) * time.Millisecond
exceedsWindow(t, ctime_) == t - ctime_ > Window

\* The line processFile appends to buffer after the extraction
bufferedLine(orig, r) == r.line

\* continue
skipLine ==
    /\ idx' = idx + 1
    /\ UNCHANGED <<pc, lst, ctime, buffer, held, timers>>

\* One iteration of the scan loop, up to its end or up to the call of wait.
ScanLine ==
    /\ ~crashed
    /\ pc = "scan"
    /\ idx <= Len(file)
    /\ IF ~MatchString(idx)
       THEN skipLine /\ UNCHANGED extracted
       ELSE LET r  == extractAndReplaceTimestamp(Text(idx), mst, lst)
                t  == IF r.ok THEN r.t ELSE ctime
                c1 == IF ctime = Zero THEN t ELSE ctime
                l1 == IF lst = Zero THEN c1 ELSE lst
                e  == Entry(idx, bufferedLine(Text(idx), r))
            IN  /\ extracted' = extracted \cup {idx}
                /\ IF ~r.ok /\ ctime = Zero
                   THEN skipLine
                   ELSE IF beforeLogStart(t, lst)
                   THEN skipLine
                   ELSE IF exceedsWindow(t, c1)
                   THEN /\ timers' = Append(timers, handleBufferedLines(buffer, c1, l1, rst, now))
                        /\ pc' = "wait"
                        /\ held' = e
                        /\ ctime' = c1
                        /\ lst' = l1
                        /\ UNCHANGED <<idx, buffer>>
                   ELSE /\ buffer' = Append(buffer, e)
                        /\ ctime' = c1
                        /\ lst' = l1
                        /\ idx' = idx + 1
                        /\ UNCHANGED <<pc, held, timers>>
    /\ UNCHANGED <<file, loop, pass, mst, start, rst, closed, cancelled, now,
                   overruns, emitted, prevEmitted, cancelAt>>
    /\ UNCHANGED <<sessionVars, crashed, mvars>>

\* processFile returns: the deferred close(notify) runs.  A timer function
\* blocked in its send on notify panics.
returnFromProcessFile(tm) ==
    /\ timers' = [i \in DOMAIN tm |->
                    IF tm[i].st = "send" THEN [tm[i] EXCEPT !.st = "panic"] ELSE tm[i]]
    /\ closed' = TRUE
    /\ pc' = "eof"
    /\ UNCHANGED <<idx, lst, ctime, buffer, held>>

\* scanner.Scan() returns false: flush the last lines.
EndOfFile ==
    /\ ~crashed
    /\ pc = "scan"
    /\ idx > Len(file)
    /\ IF Len(buffer) > 0
       THEN /\ timers' = Append(timers, handleBufferedLines(buffer, ctime, lst, rst, now))
            /\ pc' = "waitEOF"
            /\ UNCHANGED <<idx, lst, ctime, buffer, held, closed>>
       ELSE returnFromProcessFile(timers)
    /\ UNCHANGED <<file, loop, pass, mst, start, rst, cancelled, now, overruns,
                   emitted, prevEmitted, extracted, cancelAt>>
    /\ UNCHANGED <<sessionVars, crashed, mvars>>

\* What follows the return of wait, with tm the timers as wait leaves them.
afterWait(tm) ==
    IF pc = "wait"
    THEN /\ timers' = tm
         /\ buffer' = <<held>>
         /\ ctime' = Zero
         /\ held' = NoEntry
         /\ idx' = idx + 1
         /\ pc' = "scan"
         /\ UNCHANGED <<lst, closed>>
    ELSE returnFromProcessFile(tm)

\* timer.Stop(): a timer that has not fired never will.
Stop(tm, i) ==
    IF tm[i].st = "pending" THEN [tm EXCEPT ![i].st = "stopped"] ELSE tm

\* wait, case <-notify: the receive completes the send of one timer function.
WaitNotify ==
    /\ ~crashed
    /\ pc \in {"wait", "waitEOF"}
    /\ \E i \in DOMAIN timers :
          /\ timers[i].st = "send"
          /\ afterWait([timers EXCEPT ![i].st = "done"])
    /\ UNCHANGED <<file, loop, pass, mst, start, rst, cancelled, now, overruns,
                   emitted, prevEmitted, extracted, cancelAt>>
    /\ UNCHANGED <<sessionVars, crashed, mvars>>

\* wait, case <-ctx.Done(): stop the timer of this batch and return.
WaitCancelled ==
    /\ ~crashed
    /\ pc \in {"wait", "waitEOF"}
    /\ cancelled
    /\ afterWait(Stop(timers, Len(timers)))
    /\ UNCHANGED <<file, loop, pass, mst, start, rst, cancelled, now, overruns,
                   emitted, prevEmitted, extracted, cancelAt>>
    /\ UNCHANGED <<sessionVars, crashed, mvars>>

----------------------------------------------------------------------------
\* Start, lines 70-72: decide whether to run another pass, and move mst.

\* The loop condition with the test of ctx.Err() inverted
againOnlyWhenCancelled == loop /\ cancelled

againAfterPass == loop /\ ~cancelled

\* Start leaving mst as it is
keepMst == mst

nextMst == mst + (now - start)

StartLoop ==
    /\ ~crashed
    /\ pc = "eof"
    /\ againAfterPass => pass < MaxPass
    /\ mst' = nextMst
    /\ IF againAfterPass
       THEN /\ pass' = pass + 1
            /\ prevEmitted' = emitted
            /\ emitted' = <<>>
            /\ enterProcessFile
       ELSE /\ pc' = "done"
            /\ UNCHANGED <<pass, prevEmitted, emitted, idx, rst, lst, ctime,
                           buffer, held, timers, closed>>
    /\ UNCHANGED <<file, loop, start, cancelled, now, overruns, extracted, cancelAt>>
    /\ UNCHANGED <<sessionVars, crashed, mvars>>

----------------------------------------------------------------------------
\* The function of a timer: func() { emitLines(lines, callback); notify <- struct{}{} }

\* The runtime starts the function once the timer is due.
TimerFire(i) ==
    /\ ~crashed
    /\ timers[i].st = "pending"
    /\ timers[i].due <= now
    /\ timers' = [timers EXCEPT ![i].st = "emit"]
    /\ UNCHANGED <<file, loop, flowVars, closed, cancelled, now, overruns,
                   emitted, prevEmitted, extracted, cancelAt>>
    /\ UNCHANGED <<sessionVars, crashed, mvars>>

\* emitLines: one callback(l).  After the last one the function sends on notify.
TimerEmit(i) ==
    /\ ~crashed
    /\ timers[i].st = "emit"
    /\ LET tm == timers[i]
           e  == tm.lines[tm.pos]
       IN  /\ emitted' = Append(emitted, [idx |-> e.idx, text |-> e.text, at |-> now])
           /\ timers' = [timers EXCEPT
                 ![i].pos = tm.pos + 1,
                 ![i].st = IF tm.pos < Len(tm.lines) THEN "emit"
                           ELSE IF closed THEN "panic" ELSE "send"]
    /\ UNCHANGED <<file, loop, flowVars, closed, cancelled, now, overruns,
                   prevEmitted, extracted, cancelAt>>
    /\ UNCHANGED <<sessionVars, crashed, mvars>>

----------------------------------------------------------------------------
\* Environment

\* cancel()
Cancel ==
    /\ ~crashed
    /\ ~cancelled
    /\ pc \notin {"done", "fatal"}
    /\ cancelled' = TRUE
    /\ cancelAt' = pc
    /\ UNCHANGED <<file, loop, flowVars, timers, closed, now, overruns, emitted,
                   prevEmitted, extracted>>
    /\ UNCHANGED <<sessionVars, crashed, mvars>>

PendingDue ==
    {timers[i].due : i \in {j \in DOMAIN timers :
                               timers[j].st = "pending" /\ timers[j].due # Forever}}

\* Time passes until the next pending timer is due.
Tick ==
    /\ ~crashed
    /\ \E d \in PendingDue : d > now
    /\ \A d \in PendingDue : d > now
    /\ now' = CHOOSE d \in PendingDue : \A d2 \in PendingDue : d <= d2
    /\ UNCHANGED <<file, loop, flowVars, timers, closed, cancelled, overruns,
                   emitted, prevEmitted, extracted, cancelAt>>
    /\ UNCHANGED <<sessionVars, crashed, mvars>>

\* Time passes while the flow scans, a callback runs or the scheduler is late.
Overrun ==
    /\ ~crashed
    /\ overruns < MaxOverrun
    /\ pc = "scan" \/ \E i \in DOMAIN timers : timers[i].st = "emit"
    /\ now' = now + 1
    /\ overruns' = overruns + 1
    /\ UNCHANGED <<file, loop, flowVars, timers, closed, cancelled, emitted,
                   prevEmitted, extracted, cancelAt>>
    /\ UNCHANGED <<sessionVars, crashed, mvars>>

\* The panic of a timer function ends the process.
Crash ==
    /\ ~crashed
    /\ \E i \in DOMAIN timers : timers[i].st = "panic"
    /\ crashed' = TRUE
    /\ UNCHANGED <<file, loop, flowVars, timers, closed, cancelled, now, overruns,
                   emitted, prevEmitted, extracted, cancelAt, sessionVars, mvars>>

Next ==
    \/ StartCall
    \/ ScanLine
    \/ EndOfFile
    \/ WaitNotify
    \/ WaitCancelled
    \/ StartLoop
    \/ \E i \in DOMAIN timers : TimerFire(i)
    \/ \E i \in DOMAIN timers : TimerEmit(i)
    \/ Cancel
    \/ Crash
    \/ Tick
    \/ Overrun

Spec == Init /\ [][Next]_vars

TypeOK ==
    /\ pc \in {"idle", "fatal", "scan", "wait", "waitEOF", "eof", "done"}
    /\ idx \in 1..(Len(file) + 1)
    /\ Len(buffer) <= Len(file)

\* The flow without cancellation: ctx is never cancelled.
NextNoCancel ==
    \/ StartCall
    \/ ScanLine
    \/ EndOfFile
    \/ WaitNotify
    \/ StartLoop
    \/ \E i \in DOMAIN timers : TimerFire(i)
    \/ \E i \in DOMAIN timers : TimerEmit(i)
    \/ Tick
    \/ Overrun

\* The Go scheduler runs the flow and every started timer function, and
\* the clock reaches every timer's due time.
SpecNoCancel ==
    /\ Init
    /\ [][NextNoCancel]_vars
    /\ WF_vars(StartCall)
    /\ WF_vars(ScanLine)
    /\ WF_vars(EndOfFile)
    /\ WF_vars(WaitNotify)
    /\ WF_vars(StartLoop)
    /\ WF_vars(\E i \in DOMAIN timers : TimerFire(i))
    /\ WF_vars(\E i \in DOMAIN timers : TimerEmit(i))
    /\ WF_vars(Tick)

\* Log timestamps that lie 1s apart
SparseStamps == {FmtRes, FmtRes + 2 * Window, FmtRes + 4 * Window}

\* Files of lines that match FilterRegex and carry such a timestamp
SparseFiles ==
    UNION {[1..n -> {[match |-> TRUE, stamp |-> s] : s \in SparseStamps}] : n \in 0..MaxLen}

SparseInit ==
    /\ file \in SparseFiles
    /\ loop \in BOOLEAN
    /\ filterRegexOk = TRUE
    /\ timeRegexOk = TRUE
    /\ NewLogReplayer
    /\ NoMain

\* The flow without cancellation over such a file.
SparseSpec ==
    /\ SparseInit
    /\ [][NextNoCancel]_vars
    /\ WF_vars(StartCall)
    /\ WF_vars(ScanLine)
    /\ WF_vars(EndOfFile)
    /\ WF_vars(WaitNotify)
    /\ WF_vars(StartLoop)
    /\ WF_vars(\E i \in DOMAIN timers : TimerFire(i))
    /\ WF_vars(\E i \in DOMAIN timers : TimerEmit(i))
    /\ WF_vars(Tick)

\* The flow with cancellation under the same scheduling: wait returns once
\* one of its channels is ready, and a panicking goroutine ends the process.
FairSpec ==
    /\ Init
    /\ [][Next]_vars
    /\ WF_vars(StartCall)
    /\ WF_vars(ScanLine)
    /\ WF_vars(EndOfFile)
    /\ WF_vars(WaitNotify)
    /\ WF_vars(WaitCancelled)
    /\ WF_vars(StartLoop)
    /\ WF_vars(\E i \in DOMAIN timers : TimerFire(i))
    /\ WF_vars(\E i \in DOMAIN timers : TimerEmit(i))
    /\ WF_vars(Crash)
    /\ WF_vars(Tick)

----------------------------------------------------------------------------
\* main and the metrics engine builder
\*
\* The name of an environment variable is the sequence of its parts between
\* underscores: METRIC_a_EXPR is <<"METRIC", "a", "EXPR">>.

UntypedType == 0
CounterType == 1
GaugeType == 2
HistogramType == 3
SummaryType == 4

\* Values of METRIC_<name>_EXPR
ExprT == "t"
ExprPrev == "(prev || 0) + 1"
ExprHist == "({'1.0': 1, '2.0': 2, 'sum': 5, 'count': 6})"
ExprBad == "t +"

EnvVar(n, v) == [name |-> n, value |-> v]

\* The variables an environment is made of
EnvChoices ==
    {EnvVar(<<"LOOP">>, v) : v \in {"true", "false"}}
    \cup {EnvVar(<<"METRIC", "a", "EXPR">>, v) : v \in {ExprT, ExprPrev, ExprHist, ExprBad}}
    \cup {EnvVar(<<"METRIC", "a", "TYPE">>, v) :
             v \in {"counter", "gauge", "histogram", "summary", "untyped"}}
    \cup {EnvVar(<<"METRIC", "a", "LABEL">>, v) : v \in {"app=x", "app"}}
    \cup {EnvVar(<<"METRIC", "a", "DESCR">>, "Test"),
          EnvVar(<<"METRIC", "b", "EXPR">>, ExprT),
          EnvVar(<<"METRIC", "b", "DESCR">>, "Test"),
          EnvVar(<<"METRIC", "c">>, ExprT)}

\* A variable has one value
Environments ==
    {E \in SUBSET EnvChoices : \A e1, e2 \in E : e1.name = e2.name => e1 = e2}

IsSet(key) == \E e \in environ : e.name = key

\* os.Getenv(key)
Getenv(key) == IF IsSet(key) THEN (CHOOSE e \in environ : e.name = key).value ELSE ""

\* getenv(key, fallback)
getenv(key, fallback) == IF Getenv(key) = "" THEN fallback ELSE Getenv(key)

\* NewMetricBuilder(name)
NewMetricBuilder(name) ==
    [Name |-> name, Script |-> "", Type |-> GaugeType, Labels |-> <<>>,
     Description |-> ""]

\* stringToMetricType(s)
stringToMetricType(s) ==
    CASE s = "counter"   -> [t |-> CounterType, ok |-> TRUE]
      [] s = "gauge"     -> [t |-> GaugeType, ok |-> TRUE]
      [] s = "histogram" -> [t |-> HistogramType, ok |-> TRUE]
      [] s = "summary"   -> [t |-> SummaryType, ok |-> TRUE]
      [] OTHER           -> [t |-> 0, ok |-> FALSE]

\* strings.SplitN(value, "=", 2)
SplitN(value) == IF value = "app=x" THEN <<"app", "x">> ELSE <<value>>

\* MetricsEngineBuilder.AddFromEnv(varName, value): the builder map after
\* the call, whether an error is returned, and whether the call panics.
AddFromEnv(mb, varName, value) ==
    IF ~(Len(varName) >= 2 /\ varName[1] = "METRIC")
    THEN [mb |-> mb, err |-> FALSE, panic |-> FALSE]
    ELSE IF Len(varName) = 2
    THEN [mb |-> mb, err |-> FALSE, panic |-> TRUE]
    ELSE LET name    == SubSeq(varName, 2, Len(varName) - 1)
             suffix  == varName[Len(varName)]
             builder == IF name \in DOMAIN mb THEN mb[name] ELSE NewMetricBuilder(name)
             put(b)  == [n \in DOMAIN mb \cup {name} |-> IF n = name THEN b ELSE mb[n]]
             typ     == stringToMetricType(value)
             parts   == SplitN(value)
         IN  CASE suffix = "EXPR" ->
                    [mb |-> put([builder EXCEPT !.Script = value]),
                     err |-> FALSE, panic |-> FALSE]
               [] suffix = "TYPE" ->
                    IF typ.ok
                    THEN [mb |-> put([builder EXCEPT !.Type = typ.t]),
                          err |-> FALSE, panic |-> FALSE]
                    ELSE [mb |-> put(builder), err |-> TRUE, panic |-> FALSE]
               [] suffix = "DESCR" ->
                    [mb |-> put([builder EXCEPT !.Description = value]),
                     err |-> FALSE, panic |-> FALSE]
               [] suffix = "LABEL" ->
                    IF Len(parts) < 2
                    THEN [mb |-> put(builder), err |-> FALSE, panic |-> TRUE]
                    ELSE [mb |-> put([builder EXCEPT
                                        !.Labels = (parts[1] :> parts[2]) @@ @]),
                          err |-> FALSE, panic |-> FALSE]
               [] OTHER ->
                    [mb |-> put(builder), err |-> FALSE, panic |-> FALSE]

\* NewMetricsEngineBuilderFromEnv: AddFromEnv on every variable of env; an
\* error is logged and the variable skipped.
RECURSIVE NewMetricsEngineBuilderFromEnv(_, _)
NewMetricsEngineBuilderFromEnv(mb, env) ==
    IF env = {} THEN [mb |-> mb, panic |-> FALSE]
    ELSE LET e == CHOOSE x \in env : TRUE
             r == AddFromEnv(mb, e.name, e.value)
         IN  IF r.panic THEN [mb |-> r.mb, panic |-> TRUE]
             ELSE NewMetricsEngineBuilderFromEnv(r.mb, env \ {e})

\* MetricBuilder.IsComplete
IsComplete(b) == b.Script # "" /\ Len(b.Name) > 0

\* NewMetric(mb.Name, mb.Type, mb.Script, mb.Labels, mb.Description)
NewMetric(b) ==
    [name |-> b.Name, typ |-> b.Type, script |-> b.Script, labels |-> b.Labels,
     description |-> b.Description]

\* The orders in which a range statement can visit the keys S of a map
Orders(S) ==
    {f \in [1..Cardinality(S) -> S] : \A i, j \in DOMAIN f : f[i] = f[j] => i = j}

\* MetricsEngineBuilder.Build: the metric lists it can return
BuildEngine(mb) ==
    {[k \in DOMAIN o |-> NewMetric(mb[o[k]])] :
        o \in Orders({n \in DOMAIN mb : IsComplete(mb[n])})}

----------------------------------------------------------------------------
\* Metric.Eval and MetricValue.String
\*
\* A string the server writes is a sequence of tokens: the lines without
\* their line ends, and NL for every "\n".

NL == [kind |-> "nl"]
Comma == [kind |-> ","]
Label(k, v) == [kind |-> "label", k |-> k, v |-> v]

\* res.Export(): an int64, or a map[string]any for a JavaScript object
Number(n) == [kind |-> "number", n |-> n]
Object(f) == [kind |-> "object", fields |-> f]

\* The object ExprHist denotes
HistObject == ("1.0" :> 1) @@ ("2.0" :> 2) @@ ("sum" :> 5) @@ ("count" :> 6)

\* The parameters of MetricExpressionFuncTemplate: function %s(t) { return %s }
TemplateParams == {"t"}

\* The identifiers an expression refers to
Identifiers(script) ==
    CASE script = ExprT    -> {"t"}
      [] script = ExprPrev -> {"prev"}
      [] OTHER             -> {}

\* Metric.Eval(vm, t): vm.RunString fails on a script that does not parse,
\* the call fails on a reference to an identifier that is not defined.
Eval(m, t) ==
    IF m.script = ExprBad THEN [err |-> TRUE, value |-> Number(0)]
    ELSE IF ~(Identifiers(m.script) \subseteq TemplateParams)
    THEN [err |-> TRUE, value |-> Number(0)]
    ELSE [err |-> FALSE,
          value |-> IF m.script = ExprHist THEN Object(HistObject) ELSE Number(t)]

\* MetricTypeToString(t)
MetricTypeToString(t) ==
    CASE t = CounterType   -> "counter"
      [] t = GaugeType     -> "gauge"
      [] t = HistogramType -> "histogram"
      [] t = SummaryType   -> "summary"
      [] OTHER             -> "gauge"

\* MetricValue.String, lines 43-50: k="v" for every label, separated by commas
RECURSIVE labelString(_)
labelString(labels) ==
    IF DOMAIN labels = {} THEN <<>>
    ELSE LET k    == CHOOSE x \in DOMAIN labels : TRUE
             rest == [x \in DOMAIN labels \ {k} |-> labels[x]]
         IN  <<Label(k, labels[k])>>
             \o (IF DOMAIN rest = {} THEN <<>> ELSE <<Comma>> \o labelString(rest))

HelpLine(m) == [kind |-> "HELP", metric |-> m.name, text |-> m.description]
TypeLine(m) == [kind |-> "TYPE", metric |-> m.name, text |-> MetricTypeToString(m.typ)]
ValueLine(m, suffix, labels, v) ==
    [kind |-> "value", metric |-> m.name, suffix |-> suffix, labels |-> labels,
     value |-> v]

\* createSummaryLines, visiting the keys in the given order
RECURSIVE createSummaryLines(_, _, _, _)
createSummaryLines(m, obj, labels, order) ==
    IF order = <<>> THEN <<>>
    ELSE LET k == Head(order)
         IN  <<ValueLine(m, "", labels \o <<Comma, Label("quantile", k)>>, obj[k]), NL>>
             \o createSummaryLines(m, obj, labels, Tail(order))

\* createHistogramLines, visiting the keys in the given order
RECURSIVE createHistogramLines(_, _, _, _)
createHistogramLines(m, obj, labels, order) ==
    IF order = <<>> THEN <<>>
    ELSE LET k      == Head(order)
             suffix == IF k = "sum" THEN "_sum"
                       ELSE IF k = "count" THEN "_count" ELSE "_bucket"
             l2     == IF k \in {"sum", "count"} THEN labels
                       ELSE labels \o <<Comma, Label("le", k)>>
         IN  <<ValueLine(m, suffix, l2, obj[k]), NL>>
             \o createHistogramLines(m, obj, l2, Tail(order))

\* mv.Value().(map[string]any) on a value that is no map
StringPanics(m, v) == m.typ \in {HistogramType, SummaryType} /\ v.kind # "object"

\* MetricValue.String, lines 56-63: the value lines by metric type
valueLines(m, v, order) ==
    IF m.typ \in {GaugeType, CounterType, UntypedType}
    THEN <<ValueLine(m, "", labelString(m.labels), v)>>
    ELSE IF m.typ = HistogramType
    THEN createHistogramLines(m, v.fields, labelString(m.labels), order)
    ELSE createSummaryLines(m, v.fields, labelString(m.labels), order)

\* MetricValue.String writing the HELP line whatever the description
StringAlwaysHelp(m, v, order) ==
    <<HelpLine(m), NL>> \o <<TypeLine(m), NL>> \o valueLines(m, v, order)

\* MetricValue.String of a value for which it does not panic
String(m, v, order) ==
    LET helpLine == IF m.description # "" THEN <<HelpLine(m), NL>> ELSE <<>>
        typeLine == <<TypeLine(m), NL>>
    IN  helpLine \o typeLine \o valueLines(m, v, order)

\* The handler of /metrics, lines 56-62: the text in sb after the loop
RECURSIVE metricsText(_, _, _)
metricsText(ms, t, order) ==
    IF ms = <<>> THEN <<>>
    ELSE LET val == Eval(Head(ms), t)
         IN  (IF val.err THEN <<>> ELSE String(Head(ms), val.value, order) \o <<NL>>)
             \o metricsText(Tail(ms), t, order)

\* net/http recovers the panic of a handler; no body is written
Aborted == <<[kind |-> "aborted"]>>

\* The body of the answer to GET /metrics
metricsHandler(ms, t, order) ==
    IF \E k \in DOMAIN ms :
          ~Eval(ms[k], t).err /\ StringPanics(ms[k], Eval(ms[k], t).value)
    THEN Aborted
    ELSE metricsText(ms, t, order)

\* time.Since(me.startTime).Milliseconds() at a request
Elapsed == {0, 1}

\* Everything of the replayer but options.Loop
replayVars ==
    <<file, flowVars, timers, closed, cancelled, now, overruns, emitted,
      prevEmitted, extracted, cancelAt, sessionVars, crashed>>

\* main before its first statement; the replayer is not started
MetricsInit ==
    /\ file = <<>>
    /\ loop = FALSE
    /\ filterRegexOk = TRUE
    /\ timeRegexOk = TRUE
    /\ NewLogReplayer
    /\ environ \in Environments
    /\ mpc = "start"
    /\ engine = <<>>
    /\ response = NoResponse
    /\ pulls = 0
    /\ sdctx = <<>>

\* main, lines 38-71: the replayer options, the metrics engine, the server
Main ==
    /\ mpc = "start"
    /\ loop' = (getenv(<<"LOOP">>, "true") = "true")
    /\ LET b == NewMetricsEngineBuilderFromEnv(<<>>, environ)
       IN  IF b.panic
           THEN mpc' = "panic" /\ engine' = <<>>
           ELSE mpc' = "serving" /\ engine' \in BuildEngine(b.mb)
    /\ UNCHANGED <<replayVars, environ, response, pulls, sdctx>>

\* One GET /metrics
ServeMetrics ==
    /\ mpc = "serving"
    /\ pulls < MaxPulls
    /\ \E t \in Elapsed, order \in Orders(DOMAIN HistObject) :
          response' = metricsHandler(engine, t, order)
    /\ pulls' = pulls + 1
    /\ UNCHANGED <<replayVars, loop, environ, mpc, engine, sdctx>>

\* SIGTERM or SIGINT: signal.NotifyContext cancels ctx
Signal ==
    /\ mpc = "serving"
    /\ ~cancelled
    /\ cancelled' = TRUE
    /\ UNCHANGED <<file, loop, flowVars, timers, closed, now, overruns, emitted,
                   prevEmitted, extracted, cancelAt, sessionVars, crashed, mvars>>

\* 5 * time.Second, in ticks
ShutdownTimeout == 20

\* context.WithTimeout(parent, timeout): the child of a cancelled parent is
\* cancelled from the start.
WithTimeout(parentDone, timeout) ==
    [done |-> parentDone, deadline |-> now + timeout]

\* What server.Shutdown(c) can return.  Without an active connection it
\* returns nil after closing the listeners; otherwise it polls until the
\* connections are idle or c is done, and returns c.Err() in that case.
Shutdown(c, busy) ==
    IF ~busy THEN {"nil"}
    ELSE IF c.done THEN {"context canceled"}
    ELSE {"nil", "context deadline exceeded"}

\* The goroutine of Run after <-ctx.Done(): ms.Stop(ctx, 5*time.Second).  On
\* an error of Shutdown log.Fatalf ends the process.
StopServer ==
    /\ mpc = "serving"
    /\ cancelled
    /\ LET c == WithTimeout(cancelled, ShutdownTimeout)
       IN  /\ sdctx' = <<c>>
           /\ \E busy \in BOOLEAN :
                 \E err \in Shutdown(c, busy) :
                     mpc' = IF err = "nil" THEN "stopped" ELSE "fatal"
    /\ UNCHANGED <<replayVars, loop, environ, engine, response, pulls>>

\* main, line 76: <-ctx.Done() returns and main ends the process.
MainReturns ==
    /\ mpc \in {"serving", "stopped"}
    /\ cancelled
    /\ mpc' = "exit"
    /\ UNCHANGED <<replayVars, loop, environ, engine, response, pulls, sdctx>>

MetricsNext ==
    \/ Main
    \/ ServeMetrics
    \/ Signal
    \/ StopServer
    \/ MainReturns

MetricsSpec == MetricsInit /\ [][MetricsNext]_vars

----------------------------------------------------------------------------
\* Vocabulary of the properties

\* The lines that pass the filter and carry a parsable timestamp
ResolvedIdx == {i \in DOMAIN file : file[i].match /\ file[i].stamp # Zero}

\* The first resolved timestamp of a pass (Zero if the file has none)
FirstResolved ==
    IF ResolvedIdx = {} THEN Zero
    ELSE file[CHOOSE i \in ResolvedIdx : \A j \in ResolvedIdx : i <= j].stamp

\* Every buffer entry that exists: in the buffer, held by the interrupted
\* iteration, queued in a timer, or already given to the callback.
LiveEntries ==
    {buffer[k] : k \in DOMAIN buffer}
    \cup (IF pc = "wait" THEN {held} ELSE {})
    \cup UNION {{timers[i].lines[k] : k \in DOMAIN timers[i].lines} : i \in DOMAIN timers}
    \cup {Entry(emitted[k].idx, emitted[k].text) : k \in DOMAIN emitted}

EmittedIdx == {emitted[k].idx : k \in DOMAIN emitted}

IdsOf(seq) == [k \in DOMAIN seq |-> seq[k].idx]

\* Every line matches the filter and resolves, strictly increasing, each more
\* than 500ms after the previous one.
SpacedFile ==
    \A i \in DOMAIN file :
        /\ file[i].match
        /\ file[i].stamp # Zero
        /\ i > 1 => file[i].stamp - file[i - 1].stamp > Window

----------------------------------------------------------------------------
\* C1: in a pass without cancellation over a file of lines spaced more than
\* 500ms apart, the callback fires for every line, and it fires at
\* rst + (ts - ts_first): never earlier, and later only when time was lost to
\* an overrun.
C1_CallbackAtMappedTime ==
    /\ []((SpacedFile /\ ~cancelled) =>
            \A k \in DOMAIN emitted :
                LET due == rst + (file[emitted[k].idx].stamp - file[1].stamp)
                IN  /\ emitted[k].at >= due
                    /\ overruns = 0 => emitted[k].at = due)
    /\ \A i \in 1..MaxLen :
          (SpacedFile /\ i \in DOMAIN file /\ pc = "scan" /\ pass = 1)
              ~> (i \in EmittedIdx)

\* C2: while a pass runs, every line with a resolved timestamp that is
\* buffered, queued in a timer or emitted reads Format(mst + (ts - lst)) in
\* place of the captured substring, with lst the first resolved timestamp of
\* the pass, and the text around the substring is the original one.
C2_RewrittenTimestamp ==
    pc # "done" =>
        LET lst_ == FirstResolved
        IN  \A e \in LiveEntries :
                (e.idx # 0 /\ file[e.idx].stamp # Zero) =>
                    /\ e.text.id = e.idx
                    /\ e.text.stamp = Format(mst + (file[e.idx].stamp - lst_))

\* C2 witness: a line later than the first resolved one has been emitted, and
\* Format has cut its mapped time.
C2_Witness ==
    /\ pc # "done"
    /\ \E k \in DOMAIN emitted :
          /\ file[emitted[k].idx].stamp > FirstResolved
          /\ emitted[k].text.stamp # mst + (file[emitted[k].idx].stamp - FirstResolved)

\* C3: a line without a resolvable timestamp reaches the callback with its
\* original text.
C3_UnresolvedTextUnmodified ==
    \A k \in DOMAIN emitted :
        file[emitted[k].idx].stamp = Zero => emitted[k].text = Text(emitted[k].idx)

\* C4: a filtered-in line without a resolvable timestamp is appended to the
\* buffer whenever the buffer holds a line, and dropped only when it is empty.
C4_UnresolvedJoinsOpenBatch ==
    [][(/\ pc = "scan"
        /\ idx <= Len(file)
        /\ idx' = idx + 1
        /\ file[idx].match
        /\ file[idx].stamp = Zero)
       => IF buffer # <<>>
          THEN Len(buffer') = Len(buffer) + 1 /\ buffer'[Len(buffer')].idx = idx
          ELSE buffer' = buffer]_vars

\* C5: once the context is cancelled while the flow is suspended in wait, the
\* callback is never invoked again.
C5_NoCallbackAfterCancelInWait ==
    [][(cancelAt \in {"wait", "waitEOF"}) => (emitted' = emitted)]_vars

\* C6: the timestamp written into the first line emitted in a pass is later
\* than the timestamp written into every line of the pass before it, and its
\* callback does not come before the last callback of that pass.
C6_NoBackwardJump ==
    (pass >= 2 /\ emitted # <<>> /\ emitted[1].text # EmptyLine) =>
        \A j \in DOMAIN prevEmitted :
            /\ prevEmitted[j].text # EmptyLine
                  => emitted[1].text.stamp > prevEmitted[j].text.stamp
            /\ emitted[1].at >= prevEmitted[j].at

\* C7: with Loop=true and no cancellation the replay never returns; the step
\* Start takes at end-of-file begins a new pass at the first line; every
\* completed pass has delivered the same lines in the same order as the pass
\* before it; and every pass is followed by a next one.
C7_LoopRestarts ==
    /\ [](loop => pc # "done")
    /\ []((loop /\ pass >= 2 /\ pc = "eof") => IdsOf(emitted) = IdsOf(prevEmitted))
    /\ [][(loop /\ pc = "eof" /\ pc' # "eof")
            => (pc' = "scan" /\ idx' = 1 /\ pass' = pass + 1 /\ buffer' = <<>>)]_vars
    /\ \A k \in 1..(MaxPass - 1) :
          (loop /\ pass = k) ~> (pass = k + 1 /\ pc = "scan" /\ idx = 1)

\* C8: with Loop=false, once the end-of-file batch has been flushed the
\* callback is not invoked again, Start makes one pass, and no line is given
\* to the callback twice.
C8_SinglePass ==
    /\ [](~loop => pass <= 1)
    /\ [](~loop => \A j, k \in DOMAIN emitted : emitted[j].idx = emitted[k].idx => j = k)
    /\ [][(/\ ~loop
           /\ pc \in {"waitEOF", "eof", "done"}
           /\ timers # <<>>
           /\ timers[Len(timers)].st \in {"send", "done", "panic"})
          => (emitted' = emitted)]_vars

\* C9: a line that fails the filter is never handed to the extraction, never
\* buffered and never emitted, and scanning it leaves lst, ctime and the
\* buffer as they were.
C9_FilteredLineIgnored ==
    /\ [](\A i \in DOMAIN file :
            ~file[i].match =>
                /\ i \notin extracted
                /\ \A e \in LiveEntries : e.idx # i)
    /\ [][(pc = "scan" /\ idx <= Len(file) /\ ~file[idx].match /\ idx' # idx)
            => (lst' = lst /\ ctime' = ctime /\ buffer' = buffer /\ pc' = "scan")]_vars

\* C9 witness: a line failing the filter was scanned while a batch was open,
\* and the batch has been emitted.
C9_Witness ==
    \E i \in DOMAIN file :
        /\ ~file[i].match
        /\ i > 1
        /\ i - 1 \in EmittedIdx
        /\ idx > i

C11_FileOrder ==
    \A j, k \in DOMAIN emitted : j < k => emitted[j].idx < emitted[k].idx

\* The number of callback invocations for line i in the current pass
Calls(i) == Cardinality({k \in DOMAIN emitted : emitted[k].idx = i})

\* C12: in a pass that is not cancelled the callback is called for every line
\* that matches the filter and has a valid timestamp, and when the pass has
\* run to its end it has been called exactly once for each of them.
C12_EachResolvedLineOnce ==
    /\ []((pc = "eof" /\ ~cancelled) => \A i \in ResolvedIdx : Calls(i) = 1)
    /\ \A i \in 1..MaxLen :
          (i \in ResolvedIdx /\ pc = "scan" /\ pass = 1) ~> (Calls(i) = 1)

\* C13: with regexes that compile, once the context is cancelled Start
\* eventually returns, and with Loop=false Start eventually returns.
C13_StartReturns ==
    /\ (cancelled /\ compileRegexes = "none") ~> (pc = "done")
    /\ (~loop /\ compileRegexes = "none") ~> (pc = "done")

\* C14: when the filter regex or the time regex does not compile, Start ends
\* before it opens the file: no line is read, nothing is extracted, buffered,
\* scheduled or given to the callback, and the failure is reported once.
C14_CompileFailureEndsStart ==
    (~filterRegexOk \/ ~timeRegexOk) =>
        /\ pc \in {"idle", "fatal"}
        /\ ~opened
        /\ idx = 1
        /\ extracted = {}
        /\ buffer = <<>>
        /\ timers = <<>>
        /\ emitted = <<>>
        /\ Len(reports) = (IF pc = "fatal" THEN 1 ELSE 0)

\* C14 witness: Start has ended on a time regex that does not compile, with
\* a filter regex that does and a file that has lines.
C14_Witness ==
    /\ pc = "fatal"
    /\ filterRegexOk
    /\ ~timeRegexOk
    /\ file # <<>>
    /\ reports = <<"Invalid time regex">>

\* C15: when LOOP is not set in the environment, main creates the replayer
\* with options.Loop = false.
C15_LoopDefaultsToFalse ==
    (mpc = "serving" /\ ~IsSet(<<"LOOP">>)) => ~loop

\* The metrics of the engine that evaluate without error
Evaluated == SelectSeq(engine, LAMBDA m : ~Eval(m, 0).err)

\* The HELP and TYPE lines of a text, as <<kind, metric>>
Heads(r) ==
    LET h == SelectSeq(r, LAMBDA x : x.kind \in {"HELP", "TYPE"})
    IN  [k \in DOMAIN h |-> <<h[k].kind, h[k].metric>>]

\* The HELP and TYPE lines the metrics ms are to produce
RECURSIVE ExpectedHeads(_)
ExpectedHeads(ms) ==
    IF ms = <<>> THEN <<>>
    ELSE (IF Head(ms).description # "" THEN <<<<"HELP", Head(ms).name>>>> ELSE <<>>)
         \o <<<<"TYPE", Head(ms).name>>>>
         \o ExpectedHeads(Tail(ms))

\* A body has been written by the handler
Answered == pulls > 0 /\ response # Aborted

LabelPairs(l) == SelectSeq(l, LAMBDA x : x.kind = "label")

\* The value lines of metric m with the given suffix in the text r
LinesOf(r, m, suffix) ==
    {i \in DOMAIN r : /\ r[i].kind = "value"
                      /\ r[i].metric = m.name
                      /\ r[i].suffix = suffix}

\* C17: in an answer, a histogram metric has for every bucket key one
\* _bucket line whose labels are the configured labels and an le label for
\* that key, and one _sum and one _count line with the configured labels
\* only.
C17_HistogramLabels ==
    Answered =>
        \A n \in DOMAIN engine :
            LET m   == engine[n]
                cfg == LabelPairs(labelString(m.labels))
                r   == response
            IN  (m.typ = HistogramType /\ m.script = ExprHist) =>
                    /\ \A k \in DOMAIN HistObject \ {"sum", "count"} :
                          \E i \in LinesOf(r, m, "_bucket") :
                              /\ LabelPairs(r[i].labels) = cfg \o <<Label("le", k)>>
                              /\ r[i].value = HistObject[k]
                    /\ Cardinality(LinesOf(r, m, "_bucket"))
                          = Cardinality(DOMAIN HistObject \ {"sum", "count"})
                    /\ \A sfx \in {"sum", "count"} :
                          /\ Cardinality(LinesOf(r, m, "_" \o sfx)) = 1
                          /\ \A i \in LinesOf(r, m, "_" \o sfx) :
                                /\ LabelPairs(r[i].labels) = cfg
                                /\ r[i].value = HistObject[sfx]

\* C18: the n-th answer carries the value n for a counter, gauge or untyped
\* metric whose expression is (prev || 0) + 1.
C18_PrevCountsUp ==
    Answered =>
        \A n \in DOMAIN engine :
            (/\ engine[n].script = ExprPrev
             /\ engine[n].typ \in {CounterType, GaugeType, UntypedType})
            => \E i \in LinesOf(response, engine[n], "") :
                   response[i].value = Number(pulls)

\* The metric names of the modelled environments
MetricNames == {<<"a">>, <<"b">>}

MetricVar(n, suffix) == <<"METRIC">> \o n \o <<suffix>>

\* C19: a metric for which a type, a description or a label is configured
\* and no expression is in the engine main builds, with the expression t.
C19_DefaultExpression ==
    mpc = "serving" =>
        \A n \in MetricNames :
            (/\ \E sfx \in {"TYPE", "DESCR", "LABEL"} : IsSet(MetricVar(n, sfx))
             /\ ~IsSet(MetricVar(n, "EXPR")))
            => \E k \in DOMAIN engine :
                   engine[k].name = n /\ engine[k].script = ExprT

\* C20: a metric of the engine for which no type is configured has the type
\* counter.
C20_DefaultTypeCounter ==
    mpc = "serving" =>
        \A k \in DOMAIN engine :
            ~IsSet(MetricVar(engine[k].name, "TYPE")) => engine[k].typ = CounterType

\* The metric type a type name of the readme stands for
TypeNamed(s) ==
    CASE s = "counter"   -> CounterType
      [] s = "gauge"     -> GaugeType
      [] s = "histogram" -> HistogramType
      [] s = "summary"   -> SummaryType
      [] s = "untyped"   -> UntypedType

\* C21: AddFromEnv accepts every METRIC_<name>_TYPE variable of the
\* environment that holds one of the five documented type names without an
\* error and sets the builder to that type, and the metric main builds from
\* it has that type.
C21_DocumentedTypesAccepted ==
    mpc = "serving" =>
        \A e \in environ :
            \A n \in MetricNames :
                e.name = MetricVar(n, "TYPE") =>
                    LET r == AddFromEnv(<<>>, e.name, e.value)
                    IN  /\ ~r.err
                        /\ r.mb[n].Type = TypeNamed(e.value)
                        /\ \A k \in DOMAIN engine :
                              engine[k].name = n => engine[k].typ = TypeNamed(e.value)

\* C22: every batch handed to handleBufferedLines is scheduled with an anchor
\* that is not the zero time and is the log timestamp of its first line.
C22_AnchorIsFirstMember ==
    \A i \in DOMAIN timers :
        /\ timers[i].anchor # Zero
        /\ timers[i].anchor = file[timers[i].lines[1].idx].stamp

\* C23: no batch handed to handleBufferedLines holds a line whose timestamp
\* is more than 500ms after the timestamp of the first line of the batch.
C23_BatchWithinWindow ==
    \A i \in DOMAIN timers :
        \A k \in DOMAIN timers[i].lines :
            LET first == file[timers[i].lines[1].idx].stamp
                ts    == file[timers[i].lines[k].idx].stamp
            IN  ts # Zero => ts - first <= Window

\* C24: once the context is cancelled and the flow is not inside wait, be it
\* that wait has returned on the cancellation or that the cancellation came
\* between two scan iterations, processFile reads no further line and creates
\* no further timer.
C24_NoScanAfterCancel ==
    [][(cancelled /\ pc = "scan")
        => (idx' = idx /\ extracted' = extracted /\ Len(timers') <= Len(timers))]_vars

\* C25: the step that begins a pass k >= 2 sets mst to the initial mst, which
\* Start received as the time of its call, plus the time that has passed
\* since then: mst is the wall-clock time at which the pass begins.
C25_MstFollowsWallClock ==
    [][(pass >= 1 /\ pass' = pass + 1) => (mst' = start + (now - start) /\ mst' = now)]_vars

\* The timers that are pending or whose function is still calling the callback
LiveTimers == {i \in DOMAIN timers : timers[i].st \in {"pending", "emit"}}

\* C26: at most one timer is pending or running, and a timer is created only
\* when every earlier one has emitted all its lines or was stopped before it
\* fired.
C26_OneTimerInFlight ==
    /\ [](Cardinality(LiveTimers) <= 1)
    /\ [][(Len(timers') > Len(timers)) => (LiveTimers = {})]_vars

\* C27: while a timer function is in emitLines, the flow is inside wait for
\* the batch of that timer, which is the last one created, so that it neither
\* scans nor has returned from Start, and no other timer function is in
\* emitLines.
C27_CallbackNotConcurrent ==
    \A i \in DOMAIN timers :
        timers[i].st = "emit" =>
            /\ pc \in {"wait", "waitEOF"}
            /\ i = Len(timers)
            /\ \A j \in DOMAIN timers : timers[j].st = "emit" => j = i

\* C28: no timer function sends on notify once processFile has closed it, and
\* no timer function stays in its send on notify forever.
C28_NoSendOnClosed ==
    /\ [](\A i \in DOMAIN timers : timers[i].st # "panic")
    /\ \A i \in 1..(MaxLen + 1) :
          ~<>[](i \in DOMAIN timers /\ timers[i].st = "send")

Max(a, b) == IF a >= b THEN a ELSE b

\* C29: the timer handleBufferedLines creates is due after the delay
\* max(0, (anchor - lst) - (now - rst)), that is at rst + (anchor - lst), or
\* at once when that instant has passed.
C29_DelayClampedAtZero ==
    [][(Len(timers') > Len(timers))
        => LET tm == timers'[Len(timers')]
           IN  /\ tm.due = now + Max(0, (tm.anchor - lst') - (now - rst))
               /\ tm.due = Max(now, rst + (tm.anchor - lst'))]_vars

\* C30: without cancellation, every line that is in the buffer at end-of-file
\* is passed to the callback, and when processFile has returned every line
\* that was put into a batch has been passed to the callback.
C30_EndOfFileFlush ==
    /\ []((pc = "eof" /\ ~cancelled) =>
            \A i \in DOMAIN timers :
                \A k \in DOMAIN timers[i].lines : timers[i].lines[k].idx \in EmittedIdx)
    /\ \A i \in 1..MaxLen :
          (pc = "waitEOF" /\ ~cancelled /\ \E k \in DOMAIN buffer : buffer[k].idx = i)
              ~> (i \in EmittedIdx)

C32_NoBusyLoop ==
    [][(loop /\ pass >= 1 /\ pass' = pass + 1) => (timers # <<>>)]_vars

\* C33: mst does not change while a pass runs, from the entry into
\* processFile to its return; it changes in the one step Start takes between
\* two passes, by the time passed since Start was called.
C33_MstFixedDuringPass ==
    [][/\ (pc \in {"scan", "wait", "waitEOF"}) => (mst' = mst)
       /\ (pass >= 1 /\ pass' = pass + 1) => (pc = "eof" /\ mst' = mst + (now - start))
       /\ (mst' # mst) => (pc \in {"idle", "eof"} /\ pc' # "eof")]_vars

\* C33 witness: a second pass with a moved mst holds two lines in its open
\* batch.
C33_Witness ==
    pass = 2 /\ pc = "scan" /\ Len(buffer) >= 2 /\ mst # start

\* The lines that match the filter and have no resolvable timestamp
UnresolvedIdx == {i \in DOMAIN file : file[i].match /\ file[i].stamp = Zero}

\* C34: the iteration that scans a line without a resolvable timestamp
\* reports nothing and leaves the flow in the scan loop at the next line; a
\* pass over a file with such a line scans every line of the file; and every
\* later line with a timestamp not before the log start is passed to the
\* callback.
C34_UnresolvedNeverEndsPass ==
    /\ [][(pc = "scan" /\ idx \in UnresolvedIdx /\ idx' # idx)
            => (pc' = "scan" /\ idx' = idx + 1 /\ reports' = reports
                /\ timers' = timers /\ ~crashed')]_vars
    /\ (UnresolvedIdx # {} /\ pc = "scan" /\ pass = 1) ~> (idx > Len(file))
    /\ \A i \in 1..MaxLen :
          (/\ pc = "scan" /\ pass = 1
           /\ i \in ResolvedIdx
           /\ file[i].stamp >= FirstResolved
           /\ \E j \in UnresolvedIdx : j < i)
              ~> (i \in EmittedIdx)

\* Line i has a timestamp that is not before the log start and is before the
\* anchor of the open batch: before ctime, or before the timestamp of the
\* first line in the buffer.
OutOfOrder(i) ==
    /\ i \in ResolvedIdx
    /\ buffer # <<>>
    /\ lst # Zero
    /\ file[i].stamp >= lst
    /\ \/ (ctime # Zero /\ file[i].stamp < ctime)
       \/ file[i].stamp < file[buffer[1].idx].stamp

OpenAnchor == IF ctime # Zero THEN ctime ELSE file[buffer[1].idx].stamp

C37_AddFromEnvNeverPanics ==
    /\ mpc # "panic"
    /\ \A e \in environ :
          LET r == AddFromEnv(<<>>, e.name, e.value)
          IN  /\ ~r.panic
              /\ IF e.name[1] = "METRIC"
                 THEN r.err \/ Cardinality(DOMAIN r.mb) = 1
                 ELSE r.mb = <<>> /\ ~r.err

\* C38: the context Stop gives to server.Shutdown is not done when Stop
\* makes it and has its deadline 5 seconds later, and Shutdown does not fail
\* on a cancelled context.
C38_ShutdownGracePeriod ==
    /\ sdctx # <<>> => (~sdctx[1].done /\ sdctx[1].deadline = now + ShutdownTimeout)
    /\ (mpc = "fatal") => (sdctx # <<>> /\ ~sdctx[1].done)

====
